---- MODULE Spec2Model ----
(***************************************************************************)
(* Model of GL.JS (src/gl.js): the virtual-node builder (createElement,    *)
(* createTextElement), the recursive materializer (render), the Store      *)
(* (getState, dispatch, subscribe) and the bootstrap (createApp).          *)
(*                                                                         *)
(* JavaScript values are records tagged by the field t, so that values of  *)
(* different JavaScript types stay comparable:                             *)
(*   string, number, boolean, undefined, null, array, function, vnode.     *)
(***************************************************************************)
EXTENDS Integers, Sequences, FiniteSets, TLC

(***************************************************************************)
(* Bounds of the model.                                                    *)
(***************************************************************************)
\* dispatch calls the application makes from outside a notification
MaxDispatches == 1
\* registered listeners
MaxListeners == 2
\* content arguments of a createElement call
MaxArgs == 2
\* items of an array argument, children of a virtual node
MaxKids == 2
\* children the root element may already have when the application calls
\* render on it directly
MaxDirect == 0

(***************************************************************************)
(* JavaScript values.                                                      *)
(***************************************************************************)
Str(s) == [t |-> "string", s |-> s]
Num(n) == [t |-> "number", n |-> n]
Bool(b) == [t |-> "boolean", b |-> b]
Undefined == [t |-> "undefined"]
Null == [t |-> "null"]
Arr(items) == [t |-> "array", items |-> items]
Handler(type) == [t |-> "function", dispatches |-> type]

\* An object literal used as props: its own keys in insertion order
\* (the order Object.keys reports), each with its value.
Prop(k, v) == [k |-> k, v |-> v]
Obj(entries) == [t |-> "props", entries |-> entries]

\* The typeof operator; null, arrays and every object answer "object".
TypeOf(v) ==
    IF v.t \in {"string", "number", "boolean", "undefined", "function"}
    THEN v.t
    ELSE "object"

\* JavaScript truthiness, as used by props || {}.
Truthy(v) ==
    CASE v.t = "undefined" -> FALSE
      [] v.t = "null" -> FALSE
      [] v.t = "boolean" -> v.b
      [] v.t = "number" -> v.n # 0
      [] v.t = "string" -> v.s # ""
      [] OTHER -> TRUE

Digits == <<"0", "1", "2", "3", "4", "5", "6", "7", "8", "9">>

RECURSIVE NatToString(_)
NatToString(n) ==
    IF n < 10 THEN Digits[n + 1]
    ELSE NatToString(n \div 10) \o Digits[(n % 10) + 1]

\* The string form of a primitive: String(v), also what a template literal
\* interpolates.
JSString(v) ==
    CASE v.t = "string" -> v.s
      [] v.t = "number" -> IF v.n < 0 THEN "-" \o NatToString(0 - v.n)
                                      ELSE NatToString(v.n)
      [] v.t = "boolean" -> IF v.b THEN "true" ELSE "false"
      [] v.t = "undefined" -> "undefined"
      [] v.t = "null" -> "null"
      [] OTHER -> "[object]"

(***************************************************************************)
(* 1. Node Builder: createTextElement and createElement.                   *)
(***************************************************************************)
TEXT_ELEMENT == "TEXT_ELEMENT"

createTextElement(text) ==
    [t |-> "vnode",
     type |-> TEXT_ELEMENT,
     props |-> Obj(<<Prop("nodeValue", text)>>),
     children |-> <<>>]

\* Array.prototype.flat() with the default depth 1: an array item is replaced
\* by its elements, which are not flattened again.
RECURSIVE flat(_)
flat(items) ==
    IF items = <<>> THEN <<>>
    ELSE LET head == Head(items)
         IN (IF head.t = "array" THEN head.items ELSE <<head>>) \o flat(Tail(items))

createElementChild(child) ==
    IF TypeOf(child) = "object" THEN child ELSE createTextElement(child)

createElement(type, props, children) ==
    [t |-> "vnode",
     type |-> type,
     props |-> IF Truthy(props) THEN props ELSE Obj(<<>>),
     children |-> [i \in 1..Len(flat(children)) |->
                      createElementChild(flat(children)[i])]]

(***************************************************************************)
(* Host display surface (the DOM), as far as render uses it.  A host node  *)
(* has an identity (id), the properties assigned onto it in assignment     *)
(* order, and its child nodes in order; a text node also has its character *)
(* data.                                                                   *)
(***************************************************************************)
document_createTextNode(data, id) ==
    [t |-> "host", id |-> id, nodeName |-> "#text", data |-> data,
     assigned |-> <<>>, childNodes |-> <<>>]

document_createElement(type, id) ==
    [t |-> "host", id |-> id, nodeName |-> type, data |-> "",
     assigned |-> <<>>, childNodes |-> <<>>]

\* Conversion of a value assigned to the nullable DOMString attribute
\* nodeValue: null and undefined clear the data, anything else is stringified.
DOMString(v) ==
    IF v.t \in {"null", "undefined"} THEN "" ELSE JSString(v)

\* Variant: the assignment is recorded but a text node's data stays as created.
SetProperty_KeepData(dom, name, value) ==
    [dom EXCEPT !.assigned = Append(@, Prop(name, value))]

\* dom[name] = value
SetProperty(dom, name, value) ==
    [dom EXCEPT !.assigned = Append(@, Prop(name, value)),
                !.data = IF dom.nodeName = "#text" /\ name = "nodeValue"
                         THEN DOMString(value) ELSE @]

\* Variant: the node is inserted before the container's existing children.
appendChild_First(container, dom) ==
    [container EXCEPT !.childNodes = <<dom>> \o @]

appendChild(container, dom) ==
    [container EXCEPT !.childNodes = Append(@, dom)]

(***************************************************************************)
(* 2. Materializer: render(element, container).  The operator returns the  *)
(* container after the call, the next unused node identity, the host       *)
(* operations the call performed in the order it performed them, and       *)
(* whether it returned normally (ok) or threw.                             *)
(***************************************************************************)
\* Node types the host refuses: document.createElement throws on them.
InvalidTypes == {"<bad>"}

\* Reading element.type throws when element is null.
renderThrows(element) ==
    \/ element.t = "null"
    \/ element.type \in InvalidTypes

\* The host operations, as log entries.
CreateOp(dom) ==
    [op |-> "create", id |-> dom.id, parent |-> -1, key |-> "",
     data |-> dom.data]
AssignOp(dom, name) ==
    [op |-> "assign", id |-> dom.id, parent |-> -1, key |-> name, data |-> ""]
AppendOp(container, dom) ==
    [op |-> "append", id |-> dom.id, parent |-> container.id, key |-> "",
     data |-> ""]

\* Variant: the key "children" is assigned like any other.
assignable_All(name) == TRUE

\* if (name !== "children")
assignable(name) == name # "children"

\* Object.keys(element.props).forEach(name => ...), from entry i onwards
RECURSIVE ApplyProps(_, _, _)
ApplyProps(dom, entries, i) ==
    IF i > Len(entries) THEN dom
    ELSE ApplyProps(IF assignable(entries[i].k)
                    THEN SetProperty(dom, entries[i].k, entries[i].v)
                    ELSE dom,
                    entries, i + 1)

\* Variant: the node is appended to its container before its children are
\* rendered.
renderOrder_AppendFirst(created, assigns, children, appended) ==
    created \o assigns \o appended \o children

\* The statement order of render: create the node (33-36), assign its
\* properties (39-43), render the children (46), append the node (49).
renderOrder(created, assigns, children, appended) ==
    created \o assigns \o children \o appended

\* Variant: the node built so far is already attached when render throws.
abandon_Attached(container, dom) == appendChild(container, dom)

\* A child's render threw: line 49 is not reached, the container is as it
\* was.
abandon(container, dom) == container

RECURSIVE render(_, _, _)
render(element, container, nid) ==
    IF renderThrows(element)
    THEN [container |-> container, nextId |-> nid, log |-> <<>>, ok |-> FALSE]
    ELSE
    LET created == IF element.type = TEXT_ELEMENT
                   THEN document_createTextNode("", nid)
                   ELSE document_createElement(element.type, nid)
        withProps == ApplyProps(created, element.props.entries, 1)
        assigns == [i \in 1..Len(withProps.assigned) |->
                       AssignOp(created, withProps.assigned[i].k)]
        \* element.children.forEach(child => render(child, dom))
        RECURSIVE renderChildren(_, _, _, _)
        renderChildren(dom, i, n, log) ==
            IF i > Len(element.children)
            THEN [container |-> dom, nextId |-> n, log |-> log, ok |-> TRUE]
            ELSE LET r == render(element.children[i], dom, n)
                 IN IF r.ok
                    THEN renderChildren(r.container, i + 1, r.nextId,
                                        log \o r.log)
                    ELSE [container |-> r.container, nextId |-> r.nextId,
                          log |-> log \o r.log, ok |-> FALSE]
        done == renderChildren(withProps, 1, nid + 1, <<>>)
    IN IF done.ok
       THEN [container |-> appendChild(container, done.container),
             nextId |-> done.nextId,
             log |-> renderOrder(<<CreateOp(created)>>, assigns, done.log,
                                 <<AppendOp(container, created)>>),
             ok |-> TRUE]
       ELSE [container |-> abandon(container, done.container),
             nextId |-> done.nextId,
             log |-> <<CreateOp(created)>> \o assigns \o done.log,
             ok |-> FALSE]

(***************************************************************************)
(* Application code handed to the framework: the reducer and the root      *)
(* components.  Counter and its reducer are the README's counter example;  *)
(* Display is the one-element, one-text-child root.                        *)
(***************************************************************************)
Action(type) == [type |-> type]
ActionTypes == {"INCREMENT", "DECREMENT", "UNKNOWN"}
initialState == [count |-> 0]

\* An action on which the application's reducer throws instead of returning.
FailingTypes == {"FAIL"}
reducerThrows(s, action) == action.type \in FailingTypes

reducer(s, action) ==
    CASE action.type = "INCREMENT" -> [count |-> s.count + 1]
      [] action.type = "DECREMENT" -> [count |-> s.count - 1]
      [] OTHER -> s

Counter(s) ==
    createElement("div", Null,
        << createElement("h1", Null,
               <<Str("Count: " \o JSString(Num(s.count)))>>),
           createElement("button",
               Obj(<<Prop("onclick", Handler("INCREMENT"))>>),
               <<Str("Increment")>>),
           createElement("button",
               Obj(<<Prop("onclick", Handler("DECREMENT"))>>),
               <<Str("Decrement")>>) >>)

Display(s) == createElement("div", Null, <<Num(s.count)>>)

\* Fragile is a root component that cannot always be materialized: it
\* throws for a negative count, and for a positive count its tree has, after
\* a text child, an element the host cannot create.
Fragile(s) ==
    IF s.count > 0
    THEN createElement("div", Null,
             <<Str("ok"), createElement("<bad>", Null, <<>>)>>)
    ELSE createElement("div", Null, <<Num(s.count)>>)

RootComponents == {"Counter", "Display", "Fragile"}

rootComponentThrows(name, s) == name = "Fragile" /\ s.count < 0

rootComponent(name, s) ==
    CASE name = "Counter" -> Counter(s)
      [] name = "Fragile" -> Fragile(s)
      [] OTHER -> Display(s)

(***************************************************************************)
(* State: the Store's fields, the host tree under the root element, and    *)
(* the stack of dispatch calls in progress (dispatch is synchronous and    *)
(* may be re-entered from an observer).  history, prev, returned and       *)
(* lastOp record what has happened, for the properties below.              *)
(***************************************************************************)
VARIABLES
    state,        \* Store.state
    listeners,    \* Store.listeners
    rootElement,  \* the host node createApp renders into
    nextId,       \* identity of the next host node to be created
    app,          \* root component given to createApp, "none" before
    stack,        \* dispatch calls in progress, innermost last
    history,      \* actions whose transition has been applied, in order
    prev,         \* Store fields and nextId before the last operation
    returned,     \* the dispatch call that returned last
    lastOp,       \* the last operation or step performed
    call,         \* a call of createElement or render on its own: arguments
    result        \* what that call returned, NoResult before it is made

vars == <<state, listeners, rootElement, nextId, app, stack, history, prev,
          returned, lastOp, call, result>>

\* the variables of a createElement or render call made on its own
pure == <<call, result>>

\* the variables of the Store and of the mounted application
appVars == <<state, listeners, rootElement, nextId, app, stack, history, prev,
             returned, lastOp>>

NoCall == [fn |-> "none"]
NoResult == [t |-> "none"]

Snapshot == [state |-> state, listeners |-> listeners, nextId |-> nextId]

NoFrame == [action |-> Action("none"), pre |-> initialState,
            post |-> initialState, L |-> <<>>, len |-> 0, k |-> 0,
            calls |-> <<>>, reent |-> FALSE, startId |-> 0, depth |-> 0,
            parentK |-> 0]

\* Observers the application subscribes besides renderApp:
\*   reader  () => { store.getState() }
\*   chain   () => { if (store.getState().count % 2 !== 0)
\*                       store.dispatch({type: "INCREMENT"}) }
\*   adder   () => { if (!store.listeners.includes(reader))
\*                       store.subscribe(reader) }
AppObservers == {"reader", "chain", "adder"}

InitApp ==
    /\ state = initialState
    /\ listeners = <<>>
    /\ rootElement = document_createElement("div", 0)
    /\ nextId = 1
    /\ app = "none"
    /\ stack = <<>>
    /\ history = <<>>
    /\ prev = [state |-> initialState, listeners |-> <<>>, nextId |-> 1]
    /\ returned = NoFrame
    /\ lastOp = "construct"

Init ==
    /\ InitApp
    /\ call = NoCall
    /\ result = NoResult

(***************************************************************************)
(* 3. Store.                                                               *)
(***************************************************************************)
\* Variant: getState answers the state held before the last step.
getState_Stale == prev.state

\* getState() { return this.state }
getState == state

GetState ==
    /\ stack = <<>>
    /\ prev' = Snapshot
    /\ lastOp' = "getState"
    /\ UNCHANGED <<state, listeners, rootElement, nextId, app, stack,
                   history, returned>>
    /\ UNCHANGED pure

\* Variant: a new listener is put in front of the registered ones.
subscribe_Front(ls, listener) == <<listener>> \o ls

\* Variant: a listener already registered is not registered again.
subscribe_Dedupe(ls, listener) ==
    IF \E i \in 1..Len(ls) : ls[i] = listener THEN ls ELSE Append(ls, listener)

\* subscribe(listener) { this.listeners.push(listener) }
subscribe(ls, listener) == Append(ls, listener)

Subscribe(listener) ==
    /\ stack = <<>>
    /\ Len(listeners) < MaxListeners
    /\ listeners' = subscribe(listeners, listener)
    /\ prev' = Snapshot
    /\ lastOp' = "subscribe"
    /\ UNCHANGED <<state, rootElement, nextId, app, stack, history,
                   returned>>
    /\ UNCHANGED pure

\* Variant: the reducer is applied to the state given at construction.
nextState_FromInitial(action) == reducer(initialState, action)

\* this.state = this.reducer(this.state, action)
nextState(action) == reducer(state, action)

\* The call frame of dispatch(action) once line 66 has run: the state has
\* been replaced and forEach has fixed the number of listeners it visits.
\* parentK is the number of listeners the calling dispatch, if any, has
\* invoked, the one making this call included.
dispatchFrame(action) ==
    [action |-> action, pre |-> state, post |-> nextState(action),
     L |-> listeners, len |-> Len(listeners), k |-> 0, calls |-> <<>>,
     reent |-> FALSE, startId |-> nextId, depth |-> Len(stack) + 1,
     parentK |-> IF stack = <<>> THEN 0 ELSE stack[Len(stack)].k + 1]

\* dispatch(action) called by the application while no dispatch is running
Dispatch(action) ==
    /\ stack = <<>>
    /\ Len(history) < MaxDispatches
    /\ state' = nextState(action)
    /\ stack' = <<dispatchFrame(action)>>
    /\ history' = Append(history, action)
    /\ prev' = Snapshot
    /\ lastOp' = "dispatch"
    /\ UNCHANGED <<listeners, rootElement, nextId, app, returned>>
    /\ UNCHANGED pure

\* Variant: the listeners are notified although the reducer threw.
framesAfterThrow_Notify(action) == <<dispatchFrame(action)>>

\* The reducer threw on line 66: the assignment does not happen and line 67
\* is not reached, so no dispatch call is left running.
framesAfterThrow(action) == <<>>

stateAfterThrow(s, action) == s

\* dispatch(action) with an action on which the reducer throws: the
\* exception leaves dispatch and reaches the caller
DispatchThrows(action) ==
    /\ stack = <<>>
    /\ reducerThrows(state, action)
    /\ state' = stateAfterThrow(state, action)
    /\ stack' = framesAfterThrow(action)
    /\ prev' = Snapshot
    /\ lastOp' = "dispatchThrew"
    /\ UNCHANGED <<listeners, rootElement, nextId, app, history, returned>>
    /\ UNCHANGED pure

\* Variant: the running dispatch call is the outermost one, as it would be
\* if a nested call were put off until the outer notification is over.
top_Outermost == stack[1]

\* the innermost dispatch call in progress
top == stack[Len(stack)]

(***************************************************************************)
(* 4. Application Bootstrap.                                               *)
(***************************************************************************)
\* Variant: the previous render is kept.
clearChildren_Keep(container) == container

\* rootElement.innerHTML = ""
clearChildren(container) == [container EXCEPT !.childNodes = <<>>]

\* Variant: renderApp renders the state its dispatch call computed, not the
\* state the Store holds when renderApp runs.
renderedState_AtDispatch == IF stack = <<>> THEN state ELSE top.post

\* store.getState() as renderApp reads it on line 80
renderedState == getState

\* Variant: the root component is always given the state of construction.
renderApp_InitialState(root, container, nid) ==
    render(rootComponent(root, initialState), clearChildren(container), nid)

\* renderApp(): clear the previous render, then render the root component
\* of the current state.  When the root component throws, the clearing has
\* happened and render is not called.
renderApp(root, container, nid) ==
    IF rootComponentThrows(root, renderedState)
    THEN [container |-> clearChildren(container), nextId |-> nid,
          log |-> <<>>, ok |-> FALSE]
    ELSE render(rootComponent(root, renderedState), clearChildren(container),
                nid)

\* createApp(rootComponent, rootElement, store)
CreateApp(root) ==
    /\ stack = <<>>
    /\ Len(listeners) < MaxListeners
    /\ app \in {"none", root}
    /\ app' = root
    /\ listeners' = subscribe(listeners, "renderApp")
    /\ LET r == renderApp(root, rootElement, nextId)
       IN /\ rootElement' = r.container
          /\ nextId' = r.nextId
    /\ prev' = Snapshot
    /\ lastOp' = IF renderApp(root, rootElement, nextId).ok
                 THEN "createApp" ELSE "createAppThrew"
    /\ UNCHANGED <<state, stack, history, returned>>
    /\ UNCHANGED pure

\* render(node, rootElement) called directly by the application
DirectNodes == { createElement("p", Null, <<Str("x")>>) }

RenderDirect(node) ==
    /\ stack = <<>>
    /\ Len(rootElement.childNodes) <= MaxDirect
    /\ LET r == render(node, rootElement, nextId)
       IN /\ rootElement' = r.container
          /\ nextId' = r.nextId
    /\ prev' = Snapshot
    /\ lastOp' = "render"
    /\ UNCHANGED <<state, listeners, app, stack, history, returned>>
    /\ UNCHANGED pure

(***************************************************************************)
(* The notification phase of dispatch: this.listeners.forEach(listener =>  *)
(* listener()).  The innermost dispatch call runs; top.k listeners have    *)
(* been invoked by it so far.                                              *)
(***************************************************************************)
\* Variant: forEach visits listeners pushed after the loop began.
Notifying_Live == stack # <<>> /\ top.k < Len(listeners)

\* forEach visits the indices below the length the array had when the loop
\* began
Notifying == stack # <<>> /\ top.k < top.len

\* Variant: the listeners are visited from the last to the first.
listener_Reversed == listeners[top.len - top.k]

\* the listener forEach invokes next, read from the array at that moment
listener == listeners[top.k + 1]

\* the frame after it has invoked its next listener
invoked(f, reentered) ==
    [f EXCEPT !.k = @ + 1,
              !.calls = Append(@, [obs |-> listener, seen |-> getState,
                                   reent |-> f.reent]),
              !.reent = @ \/ reentered]

Step(frame) == [stack EXCEPT ![Len(stack)] = frame]

NotifyRenderApp ==
    /\ Notifying
    /\ listener = "renderApp"
    /\ LET r == renderApp(app, rootElement, nextId)
       IN /\ rootElement' = r.container
          /\ nextId' = r.nextId
          \* an exception from renderApp leaves forEach and every dispatch
          \* call in progress: no listener catches it
          /\ stack' = IF r.ok THEN Step(invoked(top, FALSE)) ELSE <<>>
          /\ lastOp' = IF r.ok THEN "notify" ELSE "renderThrew"
    /\ prev' = Snapshot
    /\ UNCHANGED <<state, listeners, app, history, returned>>
    /\ UNCHANGED pure

NotifyReader ==
    /\ Notifying
    /\ listener = "reader"
    /\ stack' = Step(invoked(top, FALSE))
    /\ prev' = Snapshot
    /\ lastOp' = "notify"
    /\ UNCHANGED <<state, listeners, rootElement, nextId, app, history,
                   returned>>
    /\ UNCHANGED pure

\* The chain observer dispatches again from inside the notification when the
\* count is odd: the nested call runs to completion before the outer forEach
\* goes on.
NotifyChain ==
    /\ Notifying
    /\ listener = "chain"
    /\ IF getState.count % 2 # 0
       THEN /\ state' = nextState(Action("INCREMENT"))
            /\ stack' = Append(Step(invoked(top, TRUE)),
                               dispatchFrame(Action("INCREMENT")))
            /\ history' = Append(history, Action("INCREMENT"))
            /\ lastOp' = "dispatch"
       ELSE /\ stack' = Step(invoked(top, FALSE))
            /\ lastOp' = "notify"
            /\ UNCHANGED <<state, history>>
    /\ prev' = Snapshot
    /\ UNCHANGED <<listeners, rootElement, nextId, app, returned>>
    /\ UNCHANGED pure

NotifyAdder ==
    /\ Notifying
    /\ listener = "adder"
    /\ listeners' = IF \E i \in 1..Len(listeners) : listeners[i] = "reader"
                    THEN listeners
                    ELSE subscribe(listeners, "reader")
    /\ stack' = Step(invoked(top, FALSE))
    /\ prev' = Snapshot
    /\ lastOp' = "notify"
    /\ UNCHANGED <<state, rootElement, nextId, app, history, returned>>
    /\ UNCHANGED pure

\* forEach has visited its listeners: dispatch returns to its caller
Return ==
    /\ stack # <<>>
    /\ top.k = top.len
    /\ stack' = SubSeq(stack, 1, Len(stack) - 1)
    /\ returned' = top
    /\ prev' = Snapshot
    /\ lastOp' = "return"
    /\ UNCHANGED <<state, listeners, rootElement, nextId, app, history>>
    /\ UNCHANGED pure

Next ==
    \/ GetState
    \/ \E o \in AppObservers : Subscribe(o)
    \/ \E type \in ActionTypes : Dispatch(Action(type))
    \/ \E type \in FailingTypes : DispatchThrows(Action(type))
    \/ \E root \in RootComponents : CreateApp(root)
    \/ \E node \in DirectNodes : RenderDirect(node)
    \/ NotifyRenderApp
    \/ NotifyReader
    \/ NotifyChain
    \/ NotifyAdder
    \/ Return

Spec == Init /\ [][Next]_vars

(***************************************************************************)
(* createElement called on its own.  The content arguments are drawn from  *)
(* the primitives, an already built virtual node, and arrays of those.     *)
(***************************************************************************)
Primitives == {Str("a"), Num(0), Bool(FALSE), Undefined, Null}

BuiltNodes == {createElement("span", Null, <<>>)}

Items == Primitives \cup BuiltNodes

SeqsUpTo(S, n) == UNION {[1..m -> S] : m \in 0..n}

ContentArgs == Items \cup {Arr(items) : items \in SeqsUpTo(Items, MaxKids)}

PropsArgs == {Null, Undefined, Obj(<<Prop("id", Str("x"))>>)}

InitBuild ==
    /\ InitApp
    /\ call \in [fn : {"createElement"}, type : {"div"}, props : PropsArgs,
                 children : SeqsUpTo(ContentArgs, MaxArgs)]
    /\ result = NoResult

BuildCall ==
    /\ call.fn = "createElement"
    /\ result = NoResult
    /\ result' = createElement(call.type, call.props, call.children)
    /\ UNCHANGED <<call, appVars>>

NextBuild == BuildCall

SpecBuild == InitBuild /\ [][NextBuild]_vars

(***************************************************************************)
(* render called on its own, on a virtual tree built by createElement and  *)
(* a container that may already have children.                             *)
(***************************************************************************)
Leaves == { createTextElement(Str("a")),
            createElement("span", Obj(<<Prop("id", Str("x"))>>), <<>>) }

Inner == {createElement("ul", Null, kids) : kids \in SeqsUpTo(Leaves, MaxKids)}

\* props of the outer element: none, or plain values, an event handler and
\* a key named "children"
RenderProps ==
    {Null,
     Obj(<<Prop("a", Num(1)), Prop("children", Str("c")),
           Prop("onclick", Handler("INCREMENT")), Prop("b", Num(2))>>)}

Trees == Leaves \cup Inner \cup
         {createElement("div", props, kids) :
             props \in RenderProps,
             kids \in SeqsUpTo(Leaves \cup Inner, MaxKids)}

\* containers with 0, 1 and 2 children; their nodes have identities 100..102
Containers ==
    LET empty == document_createElement("section", 100)
        one == appendChild(empty, document_createElement("p", 101))
    IN {empty, one, appendChild(one, document_createTextNode("", 102))}

InitRender ==
    /\ InitApp
    /\ call \in [fn : {"render"}, element : Trees, container : Containers]
    /\ result = NoResult

RenderCall ==
    /\ call.fn = "render"
    /\ result = NoResult
    /\ result' = render(call.element, call.container, 1)
    /\ UNCHANGED <<call, appVars>>

NextRender == RenderCall

SpecRender == InitRender /\ [][NextRender]_vars

(***************************************************************************)
(* Definitions used to state the properties.                               *)
(***************************************************************************)
\* the dispatch calls in progress and the one that returned last
Frames == {stack[i] : i \in 1..Len(stack)} \cup
          (IF returned = NoFrame THEN {} ELSE {returned})

\* the observers a dispatch call has invoked, in invocation order
Invoked(f) == [i \in 1..Len(f.calls) |-> f.calls[i].obs]

Positions(seq, o) == {i \in 1..Len(seq) : seq[i] = o}

\* an outermost dispatch has just returned to the application
OutermostReturned == lastOp = "return" /\ stack = <<>>

\* the host tree a virtual node stands for, identities left out
RECURSIVE Materialization(_)
Materialization(v) ==
    LET text == v.type = TEXT_ELEMENT
        kept == SelectSeq(v.props.entries, LAMBDA e : e.k # "children")
    IN [nodeName |-> IF text THEN "#text" ELSE v.type,
        data |-> IF text THEN DOMString(v.props.entries[1].v) ELSE "",
        assigned |-> kept,
        childNodes |-> [i \in 1..Len(v.children) |->
                           Materialization(v.children[i])]]

\* a host tree with the identities left out
RECURSIVE Shape(_)
Shape(h) ==
    [nodeName |-> h.nodeName, data |-> h.data, assigned |-> h.assigned,
     childNodes |-> [i \in 1..Len(h.childNodes) |-> Shape(h.childNodes[i])]]

\* the identities of a host node and of all its descendants
RECURSIVE HostIds(_)
HostIds(h) ==
    {h.id} \cup UNION {HostIds(h.childNodes[i]) : i \in 1..Len(h.childNodes)}

\* the character data of the text nodes of a host tree, in document order
RECURSIVE HostTexts(_)
RECURSIVE HostTextsOf(_, _)
HostTexts(h) ==
    IF h.nodeName = "#text" THEN <<h.data>> ELSE HostTextsOf(h.childNodes, 1)
HostTextsOf(nodes, i) ==
    IF i > Len(nodes) THEN <<>>
    ELSE HostTexts(nodes[i]) \o HostTextsOf(nodes, i + 1)

\* the payloads of the text nodes of a virtual tree, in content order
RECURSIVE Payloads(_)
RECURSIVE PayloadsOf(_, _)
Payloads(v) ==
    IF v.type = TEXT_ELEMENT THEN <<v.props.entries[1].v>>
    ELSE PayloadsOf(v.children, 1)
PayloadsOf(nodes, i) ==
    IF i > Len(nodes) THEN <<>>
    ELSE Payloads(nodes[i]) \o PayloadsOf(nodes, i + 1)

\* transition(...transition(s, a1)..., an)
RECURSIVE Fold(_, _)
Fold(s, actions) ==
    IF actions = <<>> THEN s
    ELSE Fold(reducer(s, Head(actions)), Tail(actions))

(***************************************************************************)
(* C1: dispatch(a) first replaces state by transition(state, a) and then   *)
(* invokes every observer registered when it was called exactly once, in   *)
(* subscription order; no observer runs before the state assignment.       *)
(***************************************************************************)
C1_DispatchNotifiesInOrder ==
    /\ \A f \in Frames :
          /\ f.k <= Len(f.L)
          /\ Invoked(f) = SubSeq(f.L, 1, f.k)
          /\ f.calls # <<>> => f.calls[1].seen = reducer(f.pre, f.action)
    /\ lastOp = "dispatch" => state = reducer(top.pre, top.action)
    /\ returned # NoFrame => Invoked(returned) = returned.L

C1_Witness ==
    /\ returned # NoFrame
    /\ Len(returned.L) >= 2
    /\ returned.L[1] # returned.L[2]
    /\ returned.pre # returned.post

(***************************************************************************)
(* C2: once createApp has run, whenever an outermost dispatch returns the  *)
(* root element has exactly one child, every node under it was created     *)
(* during this dispatch, and it is the materialization of the root         *)
(* component applied to getState(); also when the action left the state    *)
(* unchanged.                                                              *)
(***************************************************************************)
C2_DispatchRebuildsRoot ==
    (OutermostReturned /\ app # "none") =>
        /\ Len(rootElement.childNodes) = 1
        /\ \A id \in HostIds(rootElement.childNodes[1]) :
              id >= returned.startId
        /\ Shape(rootElement.childNodes[1]) =
              Materialization(rootComponent(app, getState))

C2_Witness ==
    /\ OutermostReturned
    /\ app # "none"
    /\ returned.action.type = "UNKNOWN"
    /\ returned.pre = returned.post
    /\ Len(rootElement.childNodes) = 1
    /\ rootElement.childNodes[1].id >= returned.startId

(***************************************************************************)
(* C3: in the counter scenario (root component Display: one element with   *)
(* one text child showing count) the host text node under the root element *)
(* carries "0" after createApp and "1" after one dispatch of INCREMENT; in *)
(* general the host text nodes carry the payloads of the text virtual      *)
(* nodes they were materialized from.                                      *)
(***************************************************************************)
C3_TextPayloadRendered ==
    (stack = <<>> /\ app # "none" /\ lastOp \in {"createApp", "return"}) =>
        LET payloads == Payloads(rootComponent(app, getState))
        IN /\ HostTexts(rootElement) =
                 [i \in 1..Len(payloads) |-> DOMString(payloads[i])]
           /\ (app = "Display" /\ lastOp = "createApp" /\ history = <<>>)
                 => HostTexts(rootElement) = <<"0">>
           /\ (app = "Display" /\ lastOp = "return"
                 /\ history = <<Action("INCREMENT")>>)
                 => HostTexts(rootElement) = <<"1">>

C3_Witness ==
    /\ app = "Display"
    /\ OutermostReturned
    /\ history = <<Action("INCREMENT")>>
    /\ HostTexts(rootElement) = <<"1">>

(***************************************************************************)
(* C4 as stated: during the notification of dispatch(a) issued from state  *)
(* s every observer obtains transition(s, a) from getState(), re-entrant   *)
(* dispatch included.                                                      *)
(***************************************************************************)
C4_Original ==
    \A f \in Frames : \A i \in 1..Len(f.calls) :
        f.calls[i].seen = reducer(f.pre, f.action)

(***************************************************************************)
(* C4 amended: an observer obtains transition(s, a) from getState() unless *)
(* an observer invoked earlier in the same notification has dispatched     *)
(* re-entrantly.                                                           *)
(***************************************************************************)
C4_PostTransitionStateSeen ==
    \A f \in Frames : \A i \in 1..Len(f.calls) :
        ~f.calls[i].reent => f.calls[i].seen = reducer(f.pre, f.action)

C4_Witness ==
    \E f \in Frames :
        /\ Len(f.calls) >= 2
        /\ f.pre # f.post
        /\ ~f.calls[1].reent
        /\ f.calls[1].seen = f.post
        /\ f.calls[2].reent
        /\ f.calls[2].seen # f.post

(***************************************************************************)
(* C5: the state changes only inside dispatch: getState() is the left fold *)
(* of the transition over the dispatched actions, starting from the        *)
(* initial state, and subscribe, getState, render and createApp leave the  *)
(* state as it was.                                                        *)
(***************************************************************************)
C5_StateIsFoldOfActions ==
    /\ getState = Fold(initialState, history)
    /\ lastOp # "dispatch" => state = prev.state

C5_Witness ==
    /\ Len(history) >= 2
    /\ state # initialState
    /\ lastOp \in {"subscribe", "createApp", "render", "getState"}

(***************************************************************************)
(* C6: createApp registers renderApp as one more observer and performs     *)
(* exactly one materialization into the root element, without waiting for  *)
(* a dispatch: right after it the root element's subtree is the            *)
(* materialization of the root component of the current state, which is    *)
(* the initial state when nothing has been dispatched.                     *)
(***************************************************************************)
C6_CreateAppRendersOnce ==
    lastOp = "createApp" =>
        /\ stack = <<>>
        /\ listeners = Append(prev.listeners, "renderApp")
        /\ Len(rootElement.childNodes) = 1
        /\ Shape(rootElement.childNodes[1]) =
              Materialization(rootComponent(app, getState))
        /\ HostIds(rootElement.childNodes[1]) = prev.nextId..(nextId - 1)
        /\ history = <<>> => Shape(rootElement.childNodes[1]) =
              Materialization(rootComponent(app, initialState))

C6_Witness ==
    /\ lastOp = "createApp"
    /\ history = <<>>
    /\ prev.listeners # <<>>
    /\ Len(rootElement.childNodes) = 1

(***************************************************************************)
(* C7: subscribe does not deduplicate: every subscribe call adds one       *)
(* registration, and a dispatch invokes an observer once per registration, *)
(* at the positions of its registrations.                                  *)
(***************************************************************************)
C7_NoDeduplication ==
    /\ lastOp = "subscribe" => Len(listeners) = Len(prev.listeners) + 1
    /\ returned # NoFrame =>
          \A o \in AppObservers \cup {"renderApp"} :
              Positions(Invoked(returned), o) = Positions(returned.L, o)

C7_Witness ==
    /\ returned # NoFrame
    /\ \E o \in AppObservers :
          /\ Cardinality(Positions(returned.L, o)) >= 2
          /\ Cardinality(Positions(Invoked(returned), o)) >= 2

(***************************************************************************)
(* C8: render(node, parent) on a node whose content has length k appends   *)
(* exactly one new host node to parent, after parent's existing children;  *)
(* that host node has exactly k children, the i-th being the               *)
(* materialization of content[i], at every depth.                          *)
(***************************************************************************)
C8_RenderAppendsOneNode ==
    (call.fn = "render" /\ result # NoResult) =>
        LET before == call.container.childNodes
            after == result.container.childNodes
            content == call.element.children
            new == after[Len(after)]
        IN /\ Len(after) = Len(before) + 1
           /\ SubSeq(after, 1, Len(before)) = before
           /\ HostIds(new) \cap HostIds(call.container) = {}
           /\ Len(new.childNodes) = Len(content)
           /\ \A i \in 1..Len(content) :
                 Shape(new.childNodes[i]) = Materialization(content[i])
           /\ Shape(new) = Materialization(call.element)

C8_Witness ==
    /\ call.fn = "render"
    /\ result # NoResult
    /\ Len(call.container.childNodes) = 2
    /\ Len(call.element.children) = 2
    /\ call.element.children[1] # call.element.children[2]
    /\ Len(call.element.children[1].children) = 2
    /\ Len(result.container.childNodes) = 3

(***************************************************************************)
(* C9: for every primitive value v (string, number, boolean, undefined,    *)
(* null) given to createElement as the only content item, the content has  *)
(* exactly one child, a text node (type TEXT_ELEMENT, no children) whose   *)
(* payload is the string form of v.                                        *)
(***************************************************************************)
C9_Original ==
    (call.fn = "createElement" /\ result # NoResult
        /\ Len(call.children) = 1 /\ call.children[1] \in Primitives) =>
        /\ Len(result.children) = 1
        /\ result.children[1].t = "vnode"
        /\ result.children[1].type = TEXT_ELEMENT
        /\ result.children[1].children = <<>>
        /\ result.children[1].props.entries =
              <<Prop("nodeValue", Str(JSString(call.children[1])))>>

\* the content arguments with one level of nesting removed
RECURSIVE Unnested(_)
Unnested(args) ==
    IF args = <<>> THEN <<>>
    ELSE (IF Head(args).t = "array" THEN Head(args).items ELSE <<Head(args)>>)
         \o Unnested(Tail(args))

IsTextNode(v) == v.t = "vnode" /\ v.type = TEXT_ELEMENT /\ v.children = <<>>

(***************************************************************************)
(* C10: the content built by createElement is the order-preserving         *)
(* concatenation of the content arguments with one level of nesting        *)
(* removed; a virtual node passes through unchanged, every other item      *)
(* becomes a text virtual node, so every element of content is a virtual   *)
(* node.                                                                   *)
(***************************************************************************)
C10_Original ==
    (call.fn = "createElement" /\ result # NoResult) =>
        LET items == Unnested(call.children)
        IN /\ Len(result.children) = Len(items)
           /\ \A i \in 1..Len(items) :
                 IF items[i].t = "vnode"
                 THEN result.children[i] = items[i]
                 ELSE /\ IsTextNode(result.children[i])
                      /\ result.children[i].props.entries[1].v \in
                            {items[i], Str(JSString(items[i]))}
           /\ \A i \in 1..Len(result.children) : result.children[i].t = "vnode"

\* the node render appended to the container of the call
Rendered == result.container.childNodes[Len(result.container.childNodes)]

RenderReturned == call.fn = "render" /\ result # NoResult /\ result.ok

\* the entries of a virtual node's props that are not named "children"
KeptEntries(v) == SelectSeq(v.props.entries, LAMBDA e : e.k # "children")

\* the keys assigned onto the host node id, in the order of the log
AssignedKeys(log, id) ==
    LET ops == SelectSeq(log, LAMBDA e : e.op = "assign" /\ e.id = id)
    IN [i \in 1..Len(ops) |-> ops[i].key]

RECURSIVE AssignedExactly(_, _, _)
AssignedExactly(h, v, log) ==
    /\ h.assigned = KeptEntries(v)
    /\ \A i \in 1..Len(h.assigned) : h.assigned[i].k # "children"
    /\ AssignedKeys(log, h.id) = [i \in 1..Len(h.assigned) |-> h.assigned[i].k]
    /\ Len(h.childNodes) = Len(v.children)
    /\ \A i \in 1..Len(v.children) :
          AssignedExactly(h.childNodes[i], v.children[i], log)

(***************************************************************************)
(* C11: render assigns onto the host node it creates exactly the keys of   *)
(* the node's props other than "children", each with its exact value       *)
(* (event handlers included); there is no assignment named "children" and  *)
(* no other property is assigned.  This holds for every node of the tree.  *)
(***************************************************************************)
C11_AttributesAssigned ==
    RenderReturned =>
        /\ AssignedExactly(Rendered, call.element, result.log)
        /\ \A i \in 1..Len(result.log) :
              result.log[i].op = "assign" =>
                  /\ result.log[i].key # "children"
                  /\ result.log[i].id \in HostIds(Rendered)

C11_Witness ==
    /\ RenderReturned
    /\ \E i \in 1..Len(call.element.props.entries) :
          call.element.props.entries[i].k = "children"
    /\ Rendered.assigned = <<Prop("a", Num(1)),
                             Prop("onclick", Handler("INCREMENT")),
                             Prop("b", Num(2))>>

\* where the log has the operation op on the host node id
At(log, op, id) == CHOOSE i \in 1..Len(log) : log[i].op = op /\ log[i].id = id

Once(log, op, id) ==
    Cardinality({i \in 1..Len(log) : log[i].op = op /\ log[i].id = id}) = 1

RECURSIVE OrderedRender(_, _, _)
OrderedRender(h, parentId, log) ==
    LET kids == h.childNodes
    IN /\ Once(log, "create", h.id)
       /\ Once(log, "append", h.id)
       /\ \A k \in 1..Len(kids) :
             Once(log, "create", kids[k].id) /\ Once(log, "append", kids[k].id)
       /\ log[At(log, "append", h.id)].parent = parentId
       /\ At(log, "create", h.id) < At(log, "append", h.id)
       /\ \A i \in 1..Len(log) :
             (log[i].op = "assign" /\ log[i].id = h.id) =>
                 /\ At(log, "create", h.id) < i
                 /\ i < At(log, "append", h.id)
                 /\ \A k \in 1..Len(kids) : i < At(log, "create", kids[k].id)
       /\ \A k \in 1..Len(kids) :
             /\ At(log, "create", h.id) < At(log, "create", kids[k].id)
             /\ At(log, "append", kids[k].id) < At(log, "append", h.id)
             /\ k < Len(kids) =>
                   At(log, "append", kids[k].id) <
                       At(log, "create", kids[k + 1].id)
       /\ \A k \in 1..Len(kids) : OrderedRender(kids[k], h.id, log)

\* a host node and all its descendants
RECURSIVE HostNodes(_)
HostNodes(h) ==
    {h} \cup UNION {HostNodes(h.childNodes[i]) : i \in 1..Len(h.childNodes)}

(***************************************************************************)
(* C12: for every node render creates it, assigns its attributes, then for *)
(* each child in content order materializes the child's whole subtree and  *)
(* appends the child before the next sibling is created, and only then     *)
(* appends the node to its parent; a node is never attached while one of   *)
(* its descendants is missing.                                             *)
(***************************************************************************)
C12_RenderOrder ==
    RenderReturned =>
        /\ OrderedRender(Rendered, call.container.id, result.log)
        /\ \A n \in HostNodes(Rendered) :
              \A id \in HostIds(n) \ {n.id} :
                  /\ At(result.log, "create", id) <
                        At(result.log, "append", n.id)
                  /\ At(result.log, "append", id) <
                        At(result.log, "append", n.id)
        /\ Cardinality({i \in 1..Len(result.log) :
                           result.log[i].op \in {"create", "append"}}) =
              2 * Cardinality(HostIds(Rendered))

C12_Witness ==
    /\ RenderReturned
    /\ Len(Rendered.childNodes) = 2
    /\ Len(Rendered.childNodes[1].childNodes) = 2
    /\ Len(Rendered.assigned) > 0
    /\ At(result.log, "append", Rendered.id) = Len(result.log)

RECURSIVE TextMaterialized(_, _, _)
TextMaterialized(h, v, log) ==
    IF v.type = TEXT_ELEMENT
    THEN /\ Once(log, "create", h.id)
         /\ log[At(log, "create", h.id)].data = ""
         /\ \E i \in 1..Len(log) :
               /\ log[i] = AssignOp(h, "nodeValue")
               /\ At(log, "create", h.id) < i
         /\ h.data = DOMString(v.props.entries[1].v)
    ELSE \A i \in 1..Len(v.children) :
            TextMaterialized(h.childNodes[i], v.children[i], log)

(***************************************************************************)
(* C15 as stated: a text node is created with an empty payload and the     *)
(* payload held in the virtual node's props is never assigned onto it, so  *)
(* the host text node's payload is empty after render.                     *)
(***************************************************************************)
C15_Original ==
    RenderReturned =>
        \A i \in 1..Len(HostTexts(Rendered)) : HostTexts(Rendered)[i] = ""

(***************************************************************************)
(* C15 amended: a text node is created with an empty payload, and the      *)
(* property loop then assigns props.nodeValue onto it, so after render the *)
(* host text node carries the payload of the virtual node.                 *)
(***************************************************************************)
C15_TextPayloadAssigned ==
    RenderReturned => TextMaterialized(Rendered, call.element, result.log)

C15_Witness ==
    /\ RenderReturned
    /\ call.element.type # TEXT_ELEMENT
    /\ Len(HostTexts(Rendered)) >= 2
    /\ \A i \in 1..Len(HostTexts(Rendered)) : HostTexts(Rendered)[i] = "a"

IsPrefix(a, b) == Len(a) <= Len(b) /\ SubSeq(b, 1, Len(a)) = a

(***************************************************************************)
(* C13: a dispatch made by an observer is nested and synchronous.  While   *)
(* it runs, the calling dispatch stands still at the observer that made    *)
(* the call; when it returns it has applied its transition and invoked its *)
(* whole observer sequence, and the calling dispatch has not moved; the    *)
(* calling dispatch then still invokes each of its remaining observers.    *)
(***************************************************************************)
C13_NestedDispatchSynchronous ==
    /\ \A i \in 1..(Len(stack) - 1) :
          /\ stack[i].k = stack[i + 1].parentK
          /\ stack[i].reent
          /\ stack[i].calls[stack[i].k].obs = "chain"
    /\ (lastOp = "return" /\ returned.depth > 1) =>
          /\ Len(stack) = returned.depth - 1
          /\ top.k = returned.parentK
          /\ Invoked(returned) = returned.L
          /\ returned.post = reducer(returned.pre, returned.action)
          /\ state = Fold(initialState, history)
    /\ (OutermostReturned /\ returned.reent) => Invoked(returned) = returned.L

C13_Witness ==
    /\ lastOp = "return"
    /\ returned.depth = 2
    /\ Len(returned.L) >= 2
    /\ returned.pre # returned.post
    /\ top.k = returned.parentK
    /\ top.k < top.len

(***************************************************************************)
(* C14: the listener sequence is append-only: after every operation the    *)
(* sequence before it is a prefix of the sequence after it, subscribe adds *)
(* its listener at the end, and the sequence a dispatch call began with    *)
(* stays a prefix of the current one.                                      *)
(***************************************************************************)
C14_ListenersAppendOnly ==
    /\ IsPrefix(prev.listeners, listeners)
    /\ \A i \in 1..Len(stack) : IsPrefix(stack[i].L, listeners)
    /\ lastOp = "subscribe" =>
          /\ Len(listeners) = Len(prev.listeners) + 1
          /\ SubSeq(listeners, 1, Len(prev.listeners)) = prev.listeners

C14_Witness ==
    /\ lastOp = "subscribe"
    /\ Len(prev.listeners) >= 1
    /\ listeners[Len(listeners)] # listeners[1]

(***************************************************************************)
(* C16: when the reducer throws, dispatch passes the exception on: the     *)
(* state, the listener sequence and the host tree are what they were       *)
(* before the call, and no listener is invoked.                            *)
(***************************************************************************)
C16_FailedTransitionChangesNothing ==
    [][lastOp' = "dispatchThrew" =>
          /\ UNCHANGED <<state, listeners, rootElement, nextId, history>>
          /\ stack' = <<>>]_vars

C16_Witness ==
    /\ lastOp = "dispatchThrew"
    /\ state # initialState
    /\ listeners # <<>>
    /\ app # "none"

(***************************************************************************)
(* C17: when renderApp fails, because the root component throws or because *)
(* the host cannot create some node, the root element is left without      *)
(* children: nothing built so far is attached.  The state keeps the value  *)
(* the dispatch gave it.                                                   *)
(***************************************************************************)
C17_FailedRenderLeavesRootEmpty ==
    lastOp \in {"renderThrew", "createAppThrew"} =>
        /\ rootElement.childNodes = <<>>
        /\ stack = <<>>
        /\ state = prev.state
        /\ state = Fold(initialState, history)
        /\ lastOp = "renderThrew" => history # <<>>

C17_Witness ==
    /\ lastOp = "renderThrew"
    /\ app = "Fragile"
    /\ state.count > 0
    /\ nextId > prev.nextId + 1
    /\ state # initialState

(***************************************************************************)
(* C18: a dispatch call invokes the listeners registered when it began and *)
(* no others: a listener registered during its notification is not invoked *)
(* by it, and is invoked by every dispatch that begins afterwards, a       *)
(* dispatch an observer makes later in the same notification included.     *)
(***************************************************************************)
C18_LateListenerNextDispatch ==
    /\ \A f \in Frames :
          /\ Len(f.calls) <= f.len
          /\ f.len = Len(f.L)
          /\ \A j \in 1..Len(f.calls) : f.calls[j].obs = f.L[j]
    /\ lastOp = "dispatch" => top.L = listeners /\ top.k = 0
    /\ lastOp = "return" => Invoked(returned) = returned.L
    /\ \A i \in 1..(Len(stack) - 1) : IsPrefix(stack[i].L, stack[i + 1].L)

C18_Witness ==
    /\ lastOp = "return"
    /\ stack # <<>>
    /\ Len(returned.L) > Len(top.L)
    /\ Positions(top.L, "reader") = {}
    /\ Positions(Invoked(top), "adder") # {}
    /\ Positions(Invoked(returned), "reader") # {}

(***************************************************************************)
(* C19: when observers dispatch again, before or after renderApp in the    *)
(* listener sequence, and nothing fails, then whenever the outermost       *)
(* dispatch returns the root element holds the materialization of the root *)
(* component applied to the final state, the fold of all actions           *)
(* dispatched, the nested ones included.                                   *)
(***************************************************************************)
C19_ReentrantDispatchRendersFinalState ==
    (OutermostReturned /\ app # "none" /\ returned.reent) =>
        /\ state = Fold(initialState, history)
        /\ Len(history) >= 2
        /\ Len(rootElement.childNodes) = 1
        /\ Shape(rootElement.childNodes[1]) =
              Materialization(rootComponent(app, Fold(initialState, history)))

C19_Witness ==
    /\ OutermostReturned
    /\ app # "none"
    /\ returned.reent
    /\ returned.L[1] = "chain"
    /\ state # returned.post
    /\ Len(rootElement.childNodes) = 1

====
